---- MODULE Spec2Model ----
(***************************************************************************)
(* talkorithm: a browser tutoring application.                             *)
(*                                                                         *)
(*   SpecRelay  the chat relay service (the worker's fetch handler)        *)
(*   SpecBoard  the drawing surface (Whiteboard component)                 *)
(*   SpecTurn   the application shell (App) with the persistence client    *)
(*              and the speech bridge: one turn                            *)
(*   SpecShell  the same, with sends that overlap                          *)
(*   SpecSpeech one turn among the other users of the speech bridge        *)
(*   SpecMemory turns and saved memory items                               *)
(*   SpecOverlap   sends that overlap, read-aloud off                      *)
(*   SpecTurnFair  SpecTurn in which every awaited operation settles       *)
(*                                                                         *)
(* Text is modelled as a sequence of characters, an optional value as a    *)
(* sequence of length 0 (absent) or 1 (present).                           *)
(***************************************************************************)
EXTENDS Integers, Sequences, FiniteSets, TLC

VARIABLES
  \* ---- relay service: one request, from arrival to its outcome
  rMethod,        \* request.method
  rBodyJson,      \* whether the request body parses as JSON
  rPayload,       \* the parsed body (RequestPayload)
  rApiKey,        \* whether env.GEMINI_API_KEY is set
  rOrigin,        \* the Origin header of the request (optional)
  rPc,            \* "start" | "upstream" | "done"
  rUpstreamCalls, \* number of calls made to the upstream AI
  rUpstreamReq,   \* the body of the upstream call (optional)
  rUpstreamRes,   \* what the upstream answered (optional)
  rOutcome,       \* what the handler produced: a Response or an exception
  \* ---- drawing surface
  wDrawing,       \* drawingRef.current
  wLastPoint,     \* lastPointRef.current (optional point)
  wLineStart,     \* lineStartRef.current (optional point)
  wDirty,         \* the dirty flag
  wTool,          \* "pen" | "erase" | "line"
  wCanvasSize,    \* canvasSize
  wStrokes,       \* whether ctx.stroke() has drawn since the last clearRect
  wBitmap,        \* the canvas bitmap: "blank" | "inked"
  \* ---- hosted document store
  store,          \* the thread's message documents, in order of arrival
  memStore,       \* the account's memory documents, in order of arrival
  clock,          \* Date.now()
  \* ---- application shell (React state)
  messages, memories, input, loading, listening, speaking,
  autoSpeak, autoSendVoice, userGesture, error,
  sends,          \* the calls of handleSendText
  nSends,         \* how many there have been
  voice,          \* the call of handleSpeak
  \* ---- speech synthesis
  platform,       \* what the browser's speech synthesis does
  voicesLoaded,   \* whether synth.getVoices() is non-empty
  utter,          \* the calls of speakText
  nSpeaks,        \* how many there have been
  quota           \* how many user actions of each kind a run may hold

relayVars == <<rMethod, rBodyJson, rPayload, rApiKey, rOrigin, rPc, rUpstreamCalls,
               rUpstreamReq, rUpstreamRes, rOutcome>>

boardVars == <<wDrawing, wLastPoint, wLineStart, wDirty, wTool, wCanvasSize, wStrokes, wBitmap>>

shellVars == <<store, memStore, clock, messages, memories, input, loading, listening,
               speaking, autoSpeak, autoSendVoice, userGesture, error, sends, nSends, voice,
               platform, voicesLoaded, utter, nSpeaks, quota>>

vars == <<relayVars, boardVars, shellVars>>

NONE == <<>>
Some(x) == <<x>>
IsSome(o) == Len(o) = 1
Val(o) == o[1]

(***************************************************************************)
(* Bounds of the model.                                                    *)
(***************************************************************************)
MaxUrlLen == 4      \* longest image data-URL, in characters
MaxMsgs == 2        \* longest message list of a relay request
MaxCoord == 1       \* pointer coordinates range over 0..MaxCoord
MaxSends == 2       \* calls of handleSendText in one run
MaxTurnSends == 1   \* calls of handleSendText in one run of a single turn
MaxSpeaks == 2      \* calls of speakText in one run
MaxVoice == 1       \* presses of the Speak button in one run
MaxSaves == 2       \* memory items saved in one run

RECURSIVE SeqsUpTo(_, _)
SeqsUpTo(S, n) ==
  IF n = 0 THEN {<<>>}
  ELSE LET shorter == SeqsUpTo(S, n - 1)
       IN shorter \cup {Append(s, x) : s \in {t \in shorter : Len(t) = n - 1}, x \in S}

(***************************************************************************)
(* Chat relay service                                                      *)
(***************************************************************************)
Roles == {"user", "assistant"}
UrlChars == {",", "A"}
Methods == {"OPTIONS", "POST", "GET", "PUT"}
Origins == {NONE, Some("https://app.example")}
RelayMessages == [role : Roles, content : {<<"h", "i">>, <<"y">>}]

\* The RequestPayload values the model draws requests from.
Payloads ==
  [system : {<<"S">>}, memory : {<<"M">>},
   imageDataUrl : {NONE} \cup {Some(u) : u \in SeqsUpTo(UrlChars, MaxUrlLen)},
   messages : SeqsUpTo(RelayMessages, MaxMsgs)]

\* String.prototype.split(","): the fields between the commas.
RECURSIVE SplitComma(_)
SplitComma(s) ==
  IF \A i \in 1..Len(s) : s[i] # ","
  THEN <<s>>
  ELSE LET c == CHOOSE i \in 1..Len(s) : s[i] = "," /\ \A j \in 1..(i - 1) : s[j] # ","
       IN <<SubSeq(s, 1, c - 1)>> \o SplitComma(SubSeq(s, c + 1, Len(s)))

\* payload.imageDataUrl.split(",")[1]: undefined when there is no such field.
ImageData(url) ==
  LET fields == SplitComma(url)
  IN IF Len(fields) >= 2 THEN Some(fields[2]) ELSE NONE

\* JavaScript truthiness of an optional string.
Truthy(o) == IsSome(o) /\ Val(o) # <<>>

TextPart(t) == [kind |-> "text", text |-> t, mimeType |-> "", data |-> <<>>]
InlinePart(d) == [kind |-> "inlineData", text |-> <<>>, mimeType |-> "image/png", data |-> d]

\* IsLastUser without the test of the role.
IsLastUser_anyRole(payload, index) == index = Len(payload.messages)

IsLastUser(payload, index) ==
  index = Len(payload.messages) /\ payload.messages[index].role = "user"

\* The parts of the upstream content built for message number index (1-based).
Parts(payload, index) ==
  LET message == payload.messages[index]
      base == <<TextPart(message.content)>>
  IN IF IsLastUser(payload, index) /\ Truthy(payload.imageDataUrl)
     THEN LET data == ImageData(Val(payload.imageDataUrl))
          IN IF Truthy(data) THEN Append(base, InlinePart(Val(data))) ELSE base
     ELSE base

UpstreamRole(role) == IF role = "assistant" THEN "model" ELSE "user"

\* Contents with the messages taken last to first.
Contents_reversed(payload) ==
  [index \in 1..Len(payload.messages) |->
     [role |-> UpstreamRole(payload.messages[Len(payload.messages) + 1 - index].role),
      parts |-> <<TextPart(payload.messages[Len(payload.messages) + 1 - index].content)>>]]

Contents(payload) ==
  [index \in 1..Len(payload.messages) |->
     [role |-> UpstreamRole(payload.messages[index].role), parts |-> Parts(payload, index)]]

SystemInstruction(payload) ==
  payload.system \o <<"\n", "\n">> \o <<"Long-term memory:">> \o <<"\n">> \o payload.memory

Response(status, kind, body) ==
  [tag |-> "response", status |-> status, kind |-> kind, body |-> body, headers |-> NONE]
Thrown(what) == [tag |-> "thrown", status |-> 0, kind |-> what, body |-> <<>>, headers |-> NONE]

\* corsHeaders, lines 98-105
CorsHeaders(origin) ==
  [allowOrigin |-> IF IsSome(origin) THEN Val(origin) ELSE "*",
   allowMethods |-> "POST, OPTIONS", allowHeaders |-> "Content-Type"]

WithCors(response, origin) == [response EXCEPT !.headers = Some(CorsHeaders(origin))]

(***************************************************************************)
(* Application shell, persistence client, relay client, speech bridge      *)
(*                                                                         *)
(* The shell is a React component: a handler reads the state of the render *)
(* in which it was created.  A handler started by a click or a key press   *)
(* reads the current state; handleSendText called from handleSpeak, after  *)
(* the recognition await, reads the state of the render in which Speak was *)
(* pressed (the closure kept in voice.c).  The session is signed in, and   *)
(* the store listeners deliver a snapshot with every write.                *)
(***************************************************************************)
MESSAGE_LIMIT == 100
MEMORY_LIMIT == 24
SUMMARY_LIMIT == 8
GENERIC_ERROR == "Unable to reach the mentor right now."
SPEECH_ERROR == "Speech recognition is unavailable in this browser."
EMPTY_MEMORY == "No saved memory yet."

Inputs == {<<"h", " ">>}
Transcripts == {<<"v">>}
Replies == {<<"r">>}
Platforms == {"unsupported", "endOnCancel", "errorOnCancel"}

Min(a, b) == IF a <= b THEN a ELSE b

\* String.prototype.trim()
RECURSIVE TrimLeft(_)
TrimLeft(t) == IF t # <<>> /\ Head(t) = " " THEN TrimLeft(Tail(t)) ELSE t
RECURSIVE TrimRight(_)
TrimRight(t) ==
  IF t # <<>> /\ t[Len(t)] = " " THEN TrimRight(SubSeq(t, 1, Len(t) - 1)) ELSE t
Trim(t) == TrimRight(TrimLeft(t))

\* orderBy("createdAt", "asc"): the documents by ascending createdAt
RECURSIVE SortAsc(_)
SortAsc(docs) ==
  IF docs = <<>> THEN <<>>
  ELSE LET i == CHOOSE k \in 1..Len(docs) :
                  \A j \in 1..Len(docs) :
                    \/ docs[k].createdAt < docs[j].createdAt
                    \/ (docs[k].createdAt = docs[j].createdAt /\ k <= j)
       IN <<docs[i]>> \o SortAsc(SubSeq(docs, 1, i - 1) \o SubSeq(docs, i + 1, Len(docs)))

Reverse(s) == [i \in 1..Len(s) |-> s[Len(s) + 1 - i]]

\* orderBy("createdAt", "desc")
SortDesc(docs) == Reverse(SortAsc(docs))

\* limit(n) / slice(0, n)
FirstN(s, n) == SubSeq(s, 1, Min(n, Len(s)))

\* listenMessages: what the snapshot listener hands to setMessages
MessagesSnapshot(docs) == FirstN(SortAsc(docs), MESSAGE_LIMIT)

\* listenMemories: what the snapshot listener hands to setMemories
MemoriesSnapshot(docs) == FirstN(SortDesc(docs), MEMORY_LIMIT)

\* The number of memory items the summary takes (slice(0, 8)).
SummaryWindow(items) == FirstN(items, SUMMARY_LIMIT)

SummaryLine(item) == <<"- ", item.title, ": ", item.detail>>

\* memorySummary: the lines that join("\n") puts together, each line the
\* pieces of its template string
MemorySummary(items) ==
  IF Len(items) = 0 THEN <<<<EMPTY_MEMORY>>>>
  ELSE LET window == SummaryWindow(items)
       IN [i \in 1..Len(window) |-> SummaryLine(window[i])]

\* sendMentorChat: the payload posted to the relay
MentorChatPayload(msgs, memory, imageDataUrl) ==
  [messages |-> [i \in 1..Len(msgs) |-> [role |-> msgs[i].role, content |-> msgs[i].content]],
   memory |-> memory,
   imageDataUrl |-> imageDataUrl]

\* The state a handler closes over.
Closure ==
  [messages |-> messages, memory |-> MemorySummary(memories), loading |-> loading,
   speaking |-> speaking, autoSpeak |-> autoSpeak, userGesture |-> userGesture,
   autoSendVoice |-> autoSendVoice]

NoClosure ==
  [messages |-> <<>>, memory |-> <<>>, loading |-> FALSE, speaking |-> FALSE,
   autoSpeak |-> FALSE, userGesture |-> FALSE, autoSendVoice |-> FALSE]

\* One call of handleSendText.  before and memBefore record the documents of
\* the thread when the call starts and the memory documents when its request
\* is built.
NoSend ==
  [pc |-> "idle", fromVoice |-> FALSE, userMessage |-> <<>>, now |-> 0, c |-> NoClosure,
   before |-> <<>>, memBefore |-> <<>>, req |-> NONE, response |-> NONE, asstAt |-> 0,
   failure |-> "none", shown |-> NONE, utt |-> 0]

\* One call of speakText.
NoUtterance == [st |-> "free", hasCb |-> FALSE, cbDone |-> FALSE, resolved |-> FALSE, owner |-> 0]

SendIds == 1..MaxSends
UttIds == 1..MaxSpeaks

IdleShell ==
  /\ store = <<>>
  /\ memStore = <<>>
  /\ clock = 1
  /\ messages = <<>>
  /\ memories = <<>>
  /\ input = <<>>
  /\ loading = FALSE
  /\ listening = FALSE
  /\ speaking = FALSE
  /\ autoSpeak = TRUE
  /\ autoSendVoice = TRUE
  /\ userGesture = FALSE
  /\ error = NONE
  /\ sends = [s \in SendIds |-> NoSend]
  /\ nSends = 0
  /\ voice = [pc |-> "idle", c |-> NoClosure, n |-> 0, last |-> "none"]
  /\ platform = "endOnCancel"
  /\ voicesLoaded = TRUE
  /\ utter = [u \in UttIds |-> NoUtterance]
  /\ nSpeaks = 0
  /\ quota = [sends |-> 0, speaks |-> 0, voice |-> 0, saves |-> 0]

\* The drawing surface as mounted (useRef / useState initial values).
IdleBoard ==
  /\ wDrawing = FALSE
  /\ wLastPoint = NONE
  /\ wLineStart = NONE
  /\ wDirty = FALSE
  /\ wTool = "pen"
  /\ wCanvasSize = [width |-> 520, height |-> 260]
  /\ wStrokes = FALSE
  /\ wBitmap = "blank"

\* A relay with no request in hand.
IdleRelay ==
  /\ rMethod = "OPTIONS"
  /\ rBodyJson = FALSE
  /\ rPayload = [system |-> <<>>, memory |-> <<>>, imageDataUrl |-> NONE, messages |-> <<>>]
  /\ rApiKey = FALSE
  /\ rOrigin = NONE
  /\ rPc = "done"
  /\ rUpstreamCalls = 0
  /\ rUpstreamReq = NONE
  /\ rUpstreamRes = NONE
  /\ rOutcome = NONE

InitRelay ==
  /\ IdleBoard
  /\ IdleShell
  /\ rMethod \in Methods
  /\ rBodyJson \in BOOLEAN
  /\ rPayload \in Payloads
  /\ rApiKey \in BOOLEAN
  /\ rOrigin \in Origins
  /\ rPc = "start"
  /\ rUpstreamCalls = 0
  /\ rUpstreamReq = NONE
  /\ rUpstreamRes = NONE
  /\ rOutcome = NONE

RelayFinish(outcome) ==
  /\ rOutcome' = Some(outcome)
  /\ rPc' = "done"

\* A preflight answered only when the credential is configured.
FetchOptions_needsKey ==
  /\ rPc = "start" /\ rMethod = "OPTIONS"
  /\ RelayFinish(IF rApiKey THEN WithCors(Response(204, "null", <<>>), rOrigin)
                 ELSE Response(500, "literal", <<"Missing GEMINI_API_KEY">>))
  /\ UNCHANGED <<rMethod, rBodyJson, rPayload, rApiKey, rOrigin, rUpstreamCalls, rUpstreamReq, rUpstreamRes, boardVars, shellVars>>

\* fetch, lines 14-19
FetchOptions ==
  /\ rPc = "start" /\ rMethod = "OPTIONS"
  /\ RelayFinish(WithCors(Response(204, "null", <<>>), rOrigin))
  /\ UNCHANGED <<rMethod, rBodyJson, rPayload, rApiKey, rOrigin, rUpstreamCalls, rUpstreamReq, rUpstreamRes, boardVars, shellVars>>

\* fetch, lines 21-23
FetchMethodNotAllowed ==
  /\ rPc = "start" /\ rMethod \notin {"OPTIONS", "POST"}
  /\ RelayFinish(Response(405, "literal", <<"Method not allowed">>))
  /\ UNCHANGED <<rMethod, rBodyJson, rPayload, rApiKey, rOrigin, rUpstreamCalls, rUpstreamReq, rUpstreamRes, boardVars, shellVars>>

\* fetch, line 25: request.json() rejects, and nothing catches it
FetchBodyNotJson ==
  /\ rPc = "start" /\ rMethod = "POST" /\ ~rBodyJson
  /\ RelayFinish(Thrown("SyntaxError"))
  /\ UNCHANGED <<rMethod, rBodyJson, rPayload, rApiKey, rOrigin, rUpstreamCalls, rUpstreamReq, rUpstreamRes, boardVars, shellVars>>

\* fetch, lines 27-29
FetchMissingKey ==
  /\ rPc = "start" /\ rMethod = "POST" /\ rBodyJson /\ ~rApiKey
  /\ RelayFinish(Response(500, "literal", <<"Missing GEMINI_API_KEY">>))
  /\ UNCHANGED <<rMethod, rBodyJson, rPayload, rApiKey, rOrigin, rUpstreamCalls, rUpstreamReq, rUpstreamRes, boardVars, shellVars>>

\* fetch, lines 31-76: the upstream request is built and sent
FetchForward ==
  /\ rPc = "start" /\ rMethod = "POST" /\ rBodyJson /\ rApiKey
  /\ rUpstreamReq' = Some([systemInstruction |-> SystemInstruction(rPayload),
                           contents |-> Contents(rPayload)])
  /\ rUpstreamCalls' = rUpstreamCalls + 1
  /\ rPc' = "upstream"
  /\ UNCHANGED <<rMethod, rBodyJson, rPayload, rApiKey, rOrigin, rUpstreamRes, rOutcome, boardVars, shellVars>>

\* What the upstream AI may answer: a non-success status with an error body, or
\* a success whose JSON has (or lacks) candidates, each with (or without) a
\* content, which has (or lacks) parts, each with (or without) a text.
ErrStatuses == {400, 429, 500, 503}
ErrBodies == {<<"e">>, <<"q", "u", "o", "t", "a">>}
CandidateParts == SeqsUpTo({NONE, Some(<<"a">>), Some(<<"b", "c">>)}, 2)
CandidateContents == [parts : {NONE} \cup {Some(ps) : ps \in CandidateParts}]
Candidates == [content : {NONE} \cup {Some(c) : c \in CandidateContents}]
OtherCandidate == [content |-> Some([parts |-> Some(<<Some(<<"z">>)>>)])]
UpstreamData ==
  [candidates : {NONE, Some(<<>>)} \cup {Some(<<c>>) : c \in Candidates}
                  \cup {Some(<<c, OtherCandidate>>) : c \in Candidates}]

RECURSIVE JoinTexts(_)
JoinTexts(ps) ==
  IF ps = <<>> THEN <<>>
  ELSE (IF IsSome(Head(ps)) THEN Val(Head(ps)) ELSE <<>>) \o JoinTexts(Tail(ps))

\* The texts of one candidate (candidate?.content?.parts?.map(...).join("") ?? "").
CandidateText(candidate) ==
  IF ~IsSome(candidate.content) THEN <<>>
  ELSE IF ~IsSome(Val(candidate.content).parts) THEN <<>>
  ELSE JoinTexts(Val(Val(candidate.content).parts))

\* ExtractText joining the texts of every candidate.
RECURSIVE AllCandidateTexts(_)
AllCandidateTexts(cs) ==
  IF cs = <<>> THEN <<>> ELSE CandidateText(Head(cs)) \o AllCandidateTexts(Tail(cs))
ExtractText_allCandidates(data) ==
  IF ~IsSome(data.candidates) THEN <<>> ELSE AllCandidateTexts(Val(data.candidates))

\* fetch, lines 84-87
ExtractText(data) ==
  IF ~IsSome(data.candidates) THEN <<>>
  ELSE IF Len(Val(data.candidates)) = 0 THEN <<>>
  ELSE CandidateText(Val(data.candidates)[1])

\* ErrorRelay answering every upstream failure with a fixed gateway status.
ErrorRelay_badGateway(status, errText) == Response(502, "text", errText)

\* The response relayed for a non-success upstream answer (fetch, lines 78-81).
ErrorRelay(status, errText) == Response(status, "text", errText)

\* fetch, lines 57-76: the upstream call itself fails (no answer at all)
UpstreamFetchFails ==
  /\ rPc = "upstream"
  /\ RelayFinish(Thrown("TypeError"))
  /\ UNCHANGED <<rMethod, rBodyJson, rPayload, rApiKey, rOrigin, rUpstreamCalls, rUpstreamReq, rUpstreamRes, boardVars, shellVars>>

\* fetch, lines 78-81
UpstreamNotOk ==
  /\ rPc = "upstream"
  /\ \E status \in ErrStatuses, errText \in ErrBodies :
       /\ rUpstreamRes' = Some([ok |-> FALSE, status |-> status, errText |-> errText,
                                data |-> [candidates |-> NONE]])
       /\ RelayFinish(ErrorRelay(status, errText))
  /\ UNCHANGED <<rMethod, rBodyJson, rPayload, rApiKey, rOrigin, rUpstreamCalls, rUpstreamReq, boardVars, shellVars>>

\* fetch, lines 83-94
UpstreamOk ==
  /\ rPc = "upstream"
  /\ \E data \in UpstreamData :
       /\ rUpstreamRes' = Some([ok |-> TRUE, status |-> 200, errText |-> <<>>, data |-> data])
       /\ RelayFinish(WithCors(Response(200, "json", ExtractText(data)), rOrigin))
  /\ UNCHANGED <<rMethod, rBodyJson, rPayload, rApiKey, rOrigin, rUpstreamCalls, rUpstreamReq, boardVars, shellVars>>

NextRelay ==
  \/ FetchOptions
  \/ FetchMethodNotAllowed
  \/ FetchBodyNotJson
  \/ FetchMissingKey
  \/ FetchForward
  \/ UpstreamFetchFails
  \/ UpstreamNotOk
  \/ UpstreamOk

SpecRelay == InitRelay /\ [][NextRelay]_vars

(***************************************************************************)
(* Drawing surface                                                         *)
(***************************************************************************)
Tools == {"pen", "erase", "line"}
Coords == 0..MaxCoord
Points == [x : Coords, y : Coords]
MinWidth == 320
MinHeight == 220
\* contentRect sizes the ResizeObserver may report
ObservedWidths == {300, 520}
ObservedHeights == {200, 260}

Max(a, b) == IF a >= b THEN a ELSE b

\* ctx.stroke() after configureContext: pen and line paint, erase composites
\* destination-out (it never adds ink, and may or may not remove the last of it).
StrokeBitmaps(tool, bitmap) ==
  IF tool = "erase" THEN (IF bitmap = "inked" THEN {"inked", "blank"} ELSE {"blank"})
  ELSE {"inked"}

\* getDataUrl(): null unless dirty, else the PNG encoding of the bitmap.
GetDataUrl == IF ~wDirty THEN NONE ELSE Some(<<"png", wBitmap>>)

\* hasDrawing()
HasDrawing == wDirty

\* clearCanvas, lines 99-106
ClearCanvas ==
  /\ wBitmap' = "blank"
  /\ wStrokes' = FALSE
  /\ wDirty' = FALSE
  /\ UNCHANGED <<wDrawing, wLastPoint, wLineStart, wTool, wCanvasSize, relayVars, shellVars>>

\* ResizeObserver callback and the effect on canvasSize, lines 111-132:
\* assigning canvas.width / canvas.height resets the bitmap.
Resize ==
  /\ \E w \in ObservedWidths, h \in ObservedHeights :
       wCanvasSize' = [width |-> Max(MinWidth, w), height |-> Max(MinHeight, h)]
  /\ wBitmap' = "blank"
  /\ UNCHANGED <<wDrawing, wLastPoint, wLineStart, wDirty, wTool, wStrokes, relayVars, shellVars>>

\* the tool buttons (a colour swatch selects the pen), lines 225-256
SetTool ==
  /\ \E t \in Tools : wTool' = t
  /\ UNCHANGED <<wDrawing, wLastPoint, wLineStart, wDirty, wCanvasSize, wStrokes, wBitmap, relayVars, shellVars>>

\* handlePointerDown, lines 165-171
HandlePointerDown ==
  /\ \E point \in Points :
       /\ wLastPoint' = Some(point)
       /\ wLineStart' = Some(point)
  /\ wDrawing' = TRUE
  /\ UNCHANGED <<wDirty, wTool, wCanvasSize, wStrokes, wBitmap, relayVars, shellVars>>

\* handlePointerMove, lines 173-194
HandlePointerMove ==
  /\ wDrawing
  /\ IsSome(wLastPoint)
  /\ \E point \in Points :
       /\ IF wTool # "line"
          THEN /\ wBitmap' \in StrokeBitmaps(wTool, wBitmap)
               /\ wStrokes' = TRUE
          ELSE UNCHANGED <<wBitmap, wStrokes>>
       /\ wLastPoint' = Some(point)
  /\ wDirty' = TRUE
  /\ UNCHANGED <<wDrawing, wLineStart, wTool, wCanvasSize, relayVars, shellVars>>

\* handlePointerUp, lines 196-219 (the handler of pointer up and pointer leave)
PointerUpEffect(end) ==
  /\ wDrawing
  /\ wDrawing' = FALSE
  /\ IF wTool = "line" /\ IsSome(wLineStart)
     THEN /\ wBitmap' \in StrokeBitmaps(wTool, wBitmap)
          /\ wStrokes' = TRUE
          /\ wDirty' = TRUE
     ELSE UNCHANGED <<wBitmap, wStrokes, wDirty>>
  /\ wLastPoint' = NONE
  /\ wLineStart' = NONE
  /\ UNCHANGED <<wTool, wCanvasSize, relayVars, shellVars>>

HandlePointerUp == \E end \in Points : PointerUpEffect(end)

HandlePointerLeave == \E end \in Points : PointerUpEffect(end)

InitBoard == IdleBoard /\ IdleRelay /\ IdleShell

NextBoard ==
  \/ ClearCanvas
  \/ Resize
  \/ SetTool
  \/ HandlePointerDown
  \/ HandlePointerMove
  \/ HandlePointerUp
  \/ HandlePointerLeave

SpecBoard == InitBoard /\ [][NextBoard]_vars

\* A call of handleSendText that has returned: its outcome stays on record, its
\* locals (the closure, the request) are gone.
Returned(send) ==
  [send EXCEPT !.pc = "done", !.c = NoClosure, !.before = <<>>, !.memBefore = <<>>,
               !.req = NONE]

\* handleSpeak's finally (and catch) once the handleSendText it awaits is over
FinishVoice(s) ==
  IF sends[s].fromVoice
  THEN /\ listening' = FALSE
       /\ voice' = [voice EXCEPT !.pc = "idle", !.last = "sent"]
  ELSE UNCHANGED <<listening, voice>>

\* handleSendText, lines 98-108: the guard has passed, the user turn is being written
StartSend(text, fromVoice, c) ==
  [NoSend EXCEPT !.pc = "userWrite", !.fromVoice = fromVoice, !.userMessage = Trim(text),
                 !.now = clock, !.c = c, !.before = store]

\* A guard that does not look at the loading flag.
SendGuard_noLoading(text, c) == Trim(text) # <<>>

\* The guard of handleSendText (line 99) for a signed-in user.
SendGuard(text, c) == Trim(text) # <<>> /\ ~c.loading

\* The message list handed to sendMentorChat (line 118).
OutgoingMessages(s) ==
  Append(sends[s].c.messages,
         [role |-> "user", content |-> sends[s].userMessage, createdAt |-> sends[s].now])

\* handleSend, lines 142-145 (the Send button, or Enter in the composer)
SendFromInput ==
  /\ nSends < quota.sends
  /\ Trim(input) # <<>>
  /\ SendGuard(input, Closure)
  /\ \E click \in BOOLEAN : userGesture' = (userGesture \/ click)
  /\ error' = NONE
  /\ sends' = [sends EXCEPT ![nSends + 1] = StartSend(input, FALSE, Closure)]
  /\ nSends' = nSends + 1
  /\ clock' = clock + 1
  /\ UNCHANGED <<store, memStore, messages, memories, input, loading, listening, speaking,
                 autoSpeak, autoSendVoice, voice, platform, voicesLoaded, utter, nSpeaks,
                 quota, relayVars, boardVars>>

\* A handleSendText that calls the relay without having stored the user turn.
UserWriteOk_relayFirst(s) ==
  /\ sends[s].pc = "userWrite"
  /\ input' = IF sends[s].fromVoice THEN input ELSE <<>>
  /\ loading' = TRUE
  /\ sends' = [sends EXCEPT ![s].pc = "relay", ![s].memBefore = memStore,
                            ![s].req = Some(MentorChatPayload(OutgoingMessages(s),
                                                              sends[s].c.memory, GetDataUrl))]
  /\ UNCHANGED <<store, messages, memStore, clock, memories, listening, speaking, autoSpeak,
                 autoSendVoice, userGesture, error, nSends, voice, platform, voicesLoaded,
                 utter, nSpeaks, quota, relayVars, boardVars>>

\* handleSendText, lines 104-122: the user turn is stored, the relay is called
UserWriteOk(s) ==
  /\ sends[s].pc = "userWrite"
  /\ store' = Append(store, [role |-> "user", content |-> sends[s].userMessage,
                             createdAt |-> sends[s].now])
  /\ messages' = MessagesSnapshot(store')
  /\ input' = IF sends[s].fromVoice THEN input ELSE <<>>
  /\ loading' = TRUE
  /\ sends' = [sends EXCEPT ![s].pc = "relay", ![s].memBefore = memStore,
                            ![s].req = Some(MentorChatPayload(OutgoingMessages(s),
                                                              sends[s].c.memory, GetDataUrl))]
  /\ UNCHANGED <<memStore, clock, memories, listening, speaking, autoSpeak, autoSendVoice,
                 userGesture, error, nSends, voice, platform, voicesLoaded, utter, nSpeaks,
                 quota, relayVars, boardVars>>

\* handleSendText, line 104: the store rejects the user turn; the rejection leaves
\* handleSendText, and only handleSpeak (lines 158-162) has a catch around it
UserWriteFail(s) ==
  /\ sends[s].pc = "userWrite"
  /\ IF sends[s].fromVoice
     THEN /\ error' = Some(SPEECH_ERROR)
          /\ sends' = [sends EXCEPT ![s] = [Returned(sends[s]) EXCEPT
                                               !.failure = "userWrite",
                                               !.shown = Some(SPEECH_ERROR)]]
     ELSE /\ error' = error
          /\ sends' = [sends EXCEPT ![s] = [Returned(sends[s]) EXCEPT !.failure = "userWrite"]]
  /\ FinishVoice(s)
  /\ UNCHANGED <<store, memStore, clock, messages, memories, input, loading, speaking,
                 autoSpeak, autoSendVoice, userGesture, nSends, platform, voicesLoaded,
                 utter, nSpeaks, quota, relayVars, boardVars>>

\* handleSendText, lines 117-128: the relay answered, the assistant turn is being written
RelayOk(s) ==
  /\ sends[s].pc = "relay"
  /\ \E reply \in Replies :
       sends' = [sends EXCEPT ![s].pc = "asstWrite", ![s].response = Some(reply),
                              ![s].asstAt = clock]
  /\ clock' = clock + 1
  /\ UNCHANGED <<store, memStore, messages, memories, input, loading, listening, speaking,
                 autoSpeak, autoSendVoice, userGesture, error, nSends, voice, platform,
                 voicesLoaded, utter, nSpeaks, quota, relayVars, boardVars>>

\* What the catch and finally of handleSendText (lines 135-139) leave of a send.
Failed(send, what) ==
  [Returned(send) EXCEPT !.failure = what, !.shown = Some(GENERIC_ERROR)]

\* handleSendText, lines 117, 135-139: sendMentorChat throws (no endpoint, no
\* network, a non-success answer of the relay)
RelayFail(s) ==
  /\ sends[s].pc = "relay"
  /\ error' = Some(GENERIC_ERROR)
  /\ loading' = FALSE
  /\ sends' = [sends EXCEPT ![s] = Failed(sends[s], "relay")]
  /\ FinishVoice(s)
  /\ UNCHANGED <<store, memStore, clock, messages, memories, input, speaking, autoSpeak,
                 autoSendVoice, userGesture, nSends, platform, voicesLoaded, utter, nSpeaks,
                 quota, relayVars, boardVars>>

\* handleSendText, lines 124-128, 135-139: the store rejects the assistant turn
AsstWriteFail(s) ==
  /\ sends[s].pc = "asstWrite"
  /\ error' = Some(GENERIC_ERROR)
  /\ loading' = FALSE
  /\ sends' = [sends EXCEPT ![s] = Failed(sends[s], "asstWrite")]
  /\ FinishVoice(s)
  /\ UNCHANGED <<store, memStore, clock, messages, memories, input, speaking, autoSpeak,
                 autoSendVoice, userGesture, nSends, platform, voicesLoaded, utter, nSpeaks,
                 quota, relayVars, boardVars>>

AssistantTurn(s) ==
  [role |-> "assistant", content |-> Val(sends[s].response), createdAt |-> sends[s].asstAt]

\* handleSendText, line 130
WillSpeak(s) == sends[s].c.autoSpeak /\ sends[s].c.userGesture

\* handleSendText, lines 124-130, 137-139: the assistant turn is stored, nothing is spoken
AsstWriteOkSilent(s) ==
  /\ sends[s].pc = "asstWrite"
  /\ ~WillSpeak(s)
  /\ store' = Append(store, AssistantTurn(s))
  /\ messages' = MessagesSnapshot(store')
  /\ loading' = FALSE
  /\ sends' = [sends EXCEPT ![s] = Returned(sends[s])]
  /\ FinishVoice(s)
  /\ UNCHANGED <<memStore, clock, memories, input, speaking, autoSpeak, autoSendVoice,
                 userGesture, error, nSends, platform, voicesLoaded, utter, nSpeaks,
                 quota, relayVars, boardVars>>

\* synth.cancel(): the utterance being played stops; whether its end event
\* still fires depends on the platform
CancelUtterances(ut) ==
  [u \in UttIds |->
     IF ut[u].st = "playing"
     THEN [ut[u] EXCEPT !.st = IF platform = "endOnCancel" THEN "cancelEnd" ELSE "cancelled"]
     ELSE ut[u]]

\* stopSpeaking, lines 74-78
StopSpeakingOn(ut) == IF platform = "unsupported" THEN ut ELSE CancelUtterances(ut)

\* What speakText does when speech synthesis is unsupported (line 54).
Unsupported(hasCb, owner) ==
  [st |-> "unsupported", hasCb |-> hasCb, cbDone |-> FALSE, resolved |-> TRUE, owner |-> owner]

\* speakText, lines 53-72, up to the first suspension: call number u
SpeakText(ut, u, hasCb, owner) ==
  IF platform = "unsupported"
  THEN [ut EXCEPT ![u] = Unsupported(hasCb, owner)]
  ELSE IF voicesLoaded
  THEN [CancelUtterances(ut) EXCEPT
          ![u] = [st |-> "playing", hasCb |-> hasCb, cbDone |-> FALSE, resolved |-> FALSE,
                  owner |-> owner]]
  ELSE [ut EXCEPT
          ![u] = [st |-> "waitVoices", hasCb |-> hasCb, cbDone |-> FALSE, resolved |-> FALSE,
                  owner |-> owner]]

\* handleSendText, lines 124-139: the assistant turn is stored and spoken
AsstWriteOkSpeak(s) ==
  /\ sends[s].pc = "asstWrite"
  /\ WillSpeak(s)
  /\ nSpeaks < quota.speaks
  /\ store' = Append(store, AssistantTurn(s))
  /\ messages' = MessagesSnapshot(store')
  /\ speaking' = TRUE
  /\ utter' = SpeakText(IF sends[s].c.speaking THEN StopSpeakingOn(utter) ELSE utter,
                        nSpeaks + 1, TRUE, s)
  /\ nSpeaks' = nSpeaks + 1
  /\ IF utter'[nSpeaks + 1].resolved
     THEN /\ loading' = FALSE
          /\ sends' = [sends EXCEPT ![s] = [Returned(sends[s]) EXCEPT !.utt = nSpeaks + 1]]
          /\ FinishVoice(s)
     ELSE /\ sends' = [sends EXCEPT ![s].pc = "speak", ![s].utt = nSpeaks + 1]
          /\ UNCHANGED <<loading, listening, voice>>
  /\ UNCHANGED <<memStore, clock, memories, input, autoSpeak, autoSendVoice, userGesture,
                 error, nSends, platform, voicesLoaded, quota, relayVars, boardVars>>

\* utterance.onend, lines 65-68, and what resumes after `await speakText` (137-139)
OnEnd(u, st) ==
  /\ utter' = [utter EXCEPT ![u].st = st, ![u].cbDone = utter[u].hasCb, ![u].resolved = TRUE]
  /\ speaking' = IF utter[u].hasCb THEN FALSE ELSE speaking
  /\ IF utter[u].owner # 0 /\ sends[utter[u].owner].pc = "speak"
     THEN /\ loading' = FALSE
          /\ sends' = [sends EXCEPT ![utter[u].owner] = Returned(sends[utter[u].owner])]
          /\ FinishVoice(utter[u].owner)
     ELSE UNCHANGED <<loading, sends, listening, voice>>
  /\ UNCHANGED <<store, memStore, clock, messages, memories, input, autoSpeak,
                 autoSendVoice, userGesture, error, nSends, platform, voicesLoaded, nSpeaks,
                 quota, relayVars, boardVars>>

\* playback of the utterance ends
UtteranceEnds(u) ==
  /\ utter[u].st = "playing"
  /\ OnEnd(u, "ended")

\* the end event of a cancelled utterance, on a platform that fires one
CancelledEndFires(u) ==
  /\ utter[u].st = "cancelEnd"
  /\ OnEnd(u, "cancelled")

\* the platform reports an error for the utterance: no end event follows
UtteranceErrors(u) ==
  /\ utter[u].st = "playing"
  /\ utter' = [utter EXCEPT ![u].st = "failed"]
  /\ UNCHANGED <<store, memStore, clock, messages, memories, input, loading, listening,
                 speaking, autoSpeak, autoSendVoice, userGesture, error, sends, nSends, voice,
                 platform, voicesLoaded, nSpeaks, quota, relayVars, boardVars>>

\* getVoices, lines 41-50: the voiceschanged handlers run in the order they were
\* added; each continues speakText (lines 59-71), cancelling the one before it
VoicesChanged ==
  /\ platform # "unsupported"
  /\ ~voicesLoaded
  /\ voicesLoaded' = TRUE
  /\ LET waiting == {u \in UttIds : utter[u].st = "waitVoices"}
         last == CHOOSE u \in waiting : \A v \in waiting : v <= u
     IN utter' = [u \in UttIds |->
                    IF u \notin waiting THEN utter[u]
                    ELSE IF u = last THEN [utter[u] EXCEPT !.st = "playing"]
                    ELSE [utter[u] EXCEPT
                            !.st = IF platform = "endOnCancel" THEN "cancelEnd" ELSE "cancelled"]]
  /\ UNCHANGED <<store, memStore, clock, messages, memories, input, loading, listening,
                 speaking, autoSpeak, autoSendVoice, userGesture, error, sends, nSends, voice,
                 platform, nSpeaks, quota, relayVars, boardVars>>

\* the Test voice button, line 242
TestVoice ==
  /\ nSpeaks < quota.speaks
  /\ utter' = SpeakText(utter, nSpeaks + 1, FALSE, 0)
  /\ nSpeaks' = nSpeaks + 1
  /\ userGesture' = TRUE
  /\ UNCHANGED <<store, memStore, clock, messages, memories, input, loading, listening,
                 speaking, autoSpeak, autoSendVoice, error, sends, nSends, voice, platform,
                 voicesLoaded, quota, relayVars, boardVars>>

\* handleSpeakMessage, lines 176-180 (Play voice on an assistant message)
HandleSpeakMessage ==
  /\ nSpeaks < quota.speaks
  /\ \E i \in 1..Len(messages) : messages[i].role = "assistant"
  /\ speaking' = TRUE
  /\ utter' = SpeakText(IF speaking THEN StopSpeakingOn(utter) ELSE utter,
                        nSpeaks + 1, TRUE, 0)
  /\ nSpeaks' = nSpeaks + 1
  /\ userGesture' = TRUE
  /\ UNCHANGED <<store, memStore, clock, messages, memories, input, loading, listening,
                 autoSpeak, autoSendVoice, error, sends, nSends, voice, platform,
                 voicesLoaded, quota, relayVars, boardVars>>

\* the Stop voice button, lines 237-241
StopVoice ==
  /\ speaking
  /\ utter' = StopSpeakingOn(utter)
  /\ userGesture' = TRUE
  /\ UNCHANGED <<store, memStore, clock, messages, memories, input, loading, listening,
                 speaking, autoSpeak, autoSendVoice, error, sends, nSends, voice, platform,
                 voicesLoaded, nSpeaks, quota, relayVars, boardVars>>

\* the composer, line 300
TypeInput ==
  /\ \E t \in Inputs : t # input /\ input' = t
  /\ UNCHANGED <<store, memStore, clock, messages, memories, loading, listening, speaking,
                 autoSpeak, autoSendVoice, userGesture, error, sends, nSends, voice, platform,
                 voicesLoaded, utter, nSpeaks, quota, relayVars, boardVars>>

\* the Read responses aloud toggle, lines 229-236
ToggleAutoSpeak ==
  /\ autoSpeak' = ~autoSpeak
  /\ userGesture' = TRUE
  /\ UNCHANGED <<store, memStore, clock, messages, memories, input, loading, listening,
                 speaking, autoSendVoice, error, sends, nSends, voice, platform,
                 voicesLoaded, utter, nSpeaks, quota, relayVars, boardVars>>

\* the Auto-send voice toggle, lines 221-228
ToggleAutoSendVoice ==
  /\ autoSendVoice' = ~autoSendVoice
  /\ userGesture' = TRUE
  /\ UNCHANGED <<store, memStore, clock, messages, memories, input, loading, listening,
                 speaking, autoSpeak, error, sends, nSends, voice, platform,
                 voicesLoaded, utter, nSpeaks, quota, relayVars, boardVars>>

\* handleSpeak, lines 147-152 (the Speak button): recognition starts
HandleSpeak ==
  /\ ~listening
  /\ voice.n < quota.voice
  /\ error' = NONE
  /\ listening' = TRUE
  /\ voice' = [pc |-> "recognizing", c |-> Closure, n |-> voice.n + 1,
               last |-> "none"]
  /\ userGesture' = TRUE
  /\ UNCHANGED <<store, memStore, clock, messages, memories, input, loading, speaking,
                 autoSpeak, autoSendVoice, sends, nSends, platform, voicesLoaded, utter,
                 nSpeaks, quota, relayVars, boardVars>>

\* startSpeechRecognition rejects (unavailable, or onerror); handleSpeak, lines 158-162
RecognitionFails ==
  /\ voice.pc = "recognizing"
  /\ error' = Some(SPEECH_ERROR)
  /\ listening' = FALSE
  /\ voice' = [voice EXCEPT !.pc = "idle", !.last = "failed"]
  /\ UNCHANGED <<store, memStore, clock, messages, memories, input, loading, speaking,
                 autoSpeak, autoSendVoice, userGesture, sends, nSends, platform,
                 voicesLoaded, utter, nSpeaks, quota, relayVars, boardVars>>

\* handleSpeak, lines 152-154: the transcript is sent by the handleSendText of
\* the render in which Speak was pressed
VoiceSend ==
  /\ voice.pc = "recognizing"
  /\ voice.c.autoSendVoice
  /\ nSends < quota.sends
  /\ \E t \in Transcripts :
       /\ SendGuard(t, voice.c)
       /\ sends' = [sends EXCEPT ![nSends + 1] = StartSend(t, TRUE, voice.c)]
  /\ error' = NONE
  /\ nSends' = nSends + 1
  /\ clock' = clock + 1
  /\ voice' = [voice EXCEPT !.pc = "sending"]
  /\ UNCHANGED <<store, memStore, messages, memories, input, loading, listening, speaking,
                 autoSpeak, autoSendVoice, userGesture, platform, voicesLoaded, utter,
                 nSpeaks, quota, relayVars, boardVars>>

\* handleSpeak, lines 152-154, 160-162: handleSendText returns at its guard
VoiceSendRefused ==
  /\ voice.pc = "recognizing"
  /\ voice.c.autoSendVoice
  /\ \E t \in Transcripts : ~SendGuard(t, voice.c)
  /\ listening' = FALSE
  /\ voice' = [voice EXCEPT !.pc = "idle", !.last = "refused"]
  /\ UNCHANGED <<store, memStore, clock, messages, memories, input, loading, speaking,
                 autoSpeak, autoSendVoice, userGesture, error, sends, nSends, platform,
                 voicesLoaded, utter, nSpeaks, quota, relayVars, boardVars>>

\* handleSpeak, lines 155-157, 160-162: the transcript goes to the composer
VoiceToInput ==
  /\ voice.pc = "recognizing"
  /\ ~voice.c.autoSendVoice
  /\ \E t \in Transcripts :
       input' = IF input # <<>> THEN input \o <<" ">> \o t ELSE t
  /\ listening' = FALSE
  /\ voice' = [voice EXCEPT !.pc = "idle", !.last = "typed"]
  /\ UNCHANGED <<store, memStore, clock, messages, memories, loading, speaking,
                 autoSpeak, autoSendVoice, userGesture, error, sends, nSends, platform,
                 voicesLoaded, utter, nSpeaks, quota, relayVars, boardVars>>

\* message.content.slice(0, n).replace(/\s+/g, " ").trim()
RECURSIVE CollapseSpaces(_)
CollapseSpaces(t) ==
  IF Len(t) < 2 THEN t
  ELSE IF t[1] = " " /\ t[2] = " " THEN CollapseSpaces(Tail(t))
  ELSE <<t[1]>> \o CollapseSpaces(Tail(t))
Excerpt(content, n) == Trim(CollapseSpaces(FirstN(content, n)))

\* handleSaveMemory, lines 165-174 (Save to Memory on an assistant message)
HandleSaveMemory ==
  /\ Len(memStore) < quota.saves
  /\ \E i \in 1..Len(messages) :
       /\ messages[i].role = "assistant"
       /\ LET title == Excerpt(messages[i].content, 64)
              detail == Excerpt(messages[i].content, 220)
          IN memStore' = Append(memStore,
                                [title |-> IF title # <<>> THEN title ELSE <<"Saved insight">>,
                                 detail |-> detail, createdAt |-> clock])
  /\ memories' = MemoriesSnapshot(memStore')
  /\ clock' = clock + 1
  /\ userGesture' = TRUE
  /\ UNCHANGED <<store, messages, input, loading, listening, speaking, autoSpeak,
                 autoSendVoice, error, sends, nSends, voice, platform,
                 voicesLoaded, utter, nSpeaks, quota, relayVars, boardVars>>

\* The shell of a signed-in session with an empty thread: the useState initial
\* values, with the read-aloud toggle as the user left it.
InitShellState(readAloud) ==
  /\ IdleRelay
  /\ IdleBoard
  /\ clock = 1
  /\ input = <<>>
  /\ loading = FALSE
  /\ listening = FALSE
  /\ speaking = FALSE
  /\ autoSpeak = readAloud
  /\ autoSendVoice = TRUE
  /\ userGesture = FALSE
  /\ error = NONE
  /\ sends = [s \in SendIds |-> NoSend]
  /\ nSends = 0
  /\ voice = [pc |-> "idle", c |-> NoClosure, n |-> 0, last |-> "none"]
  /\ utter = [u \in UttIds |-> NoUtterance]
  /\ nSpeaks = 0

\* The browser the page runs in.
AnyBrowser ==
  /\ platform \in Platforms
  /\ voicesLoaded \in BOOLEAN

\* With read-aloud off and no speech action the browser's synthesis is never
\* consulted.
SilentBrowser ==
  /\ platform = "unsupported"
  /\ voicesLoaded = FALSE

NoMemory ==
  /\ memStore = <<>>
  /\ memories = <<>>

NewThread ==
  /\ store = <<>>
  /\ messages = <<>>

\* SpecTurn: one turn, sent from the composer or by voice, with the speech it
\* starts and the Stop voice button.
InitTurn ==
  /\ InitShellState(TRUE)
  /\ AnyBrowser
  /\ NewThread
  /\ NoMemory
  /\ quota = [sends |-> MaxTurnSends, speaks |-> MaxTurnSends, voice |-> MaxVoice, saves |-> 0]

NextTurn ==
  \/ TypeInput
  \/ SendFromInput
  \/ \E s \in SendIds : UserWriteOk(s)
  \/ \E s \in SendIds : UserWriteFail(s)
  \/ \E s \in SendIds : RelayOk(s)
  \/ \E s \in SendIds : RelayFail(s)
  \/ \E s \in SendIds : AsstWriteOkSilent(s)
  \/ \E s \in SendIds : AsstWriteOkSpeak(s)
  \/ \E s \in SendIds : AsstWriteFail(s)
  \/ \E u \in UttIds : UtteranceEnds(u)
  \/ \E u \in UttIds : CancelledEndFires(u)
  \/ \E u \in UttIds : UtteranceErrors(u)
  \/ VoicesChanged
  \/ StopVoice
  \/ HandleSpeak
  \/ RecognitionFails
  \/ VoiceSend
  \/ VoiceSendRefused

SpecTurn == InitTurn /\ [][NextTurn]_vars

\* The store write or the relay call a send is waiting for settles.
Settles ==
  \E s \in SendIds :
    \/ UserWriteOk(s) \/ UserWriteFail(s)
    \/ RelayOk(s) \/ RelayFail(s)
    \/ AsstWriteOkSilent(s) \/ AsstWriteOkSpeak(s) \/ AsstWriteFail(s)

\* The events the platform owes: an utterance left playing reaches its end,
\* the end event of a cancelled utterance is delivered where the platform
\* fires one, the voice list gets ready, recognition gives a result or fails.
PlaybackEnds == \E u \in UttIds : UtteranceEnds(u)
PendingEndFires == \E u \in UttIds : CancelledEndFires(u)
RecognitionSettles == RecognitionFails \/ VoiceSend \/ VoiceSendRefused

\* SpecTurnFair: SpecTurn in which every awaited operation settles.
SpecTurnFair ==
  /\ SpecTurn
  /\ WF_vars(Settles)
  /\ WF_vars(PlaybackEnds)
  /\ WF_vars(PendingEndFires)
  /\ WF_vars(VoicesChanged)
  /\ WF_vars(RecognitionSettles)

\* SpecShell: the same operations with room for sends that overlap.
InitShell ==
  /\ InitShellState(TRUE)
  /\ AnyBrowser
  /\ NewThread
  /\ NoMemory
  /\ quota = [sends |-> MaxSends, speaks |-> MaxSends, voice |-> MaxVoice, saves |-> 0]

SpecShell == InitShell /\ [][NextTurn]_vars

\* SpecSpeech: one turn among the other users of the speech bridge and the
\* toggles of the mentor bar.
InitSpeech ==
  /\ InitShellState(TRUE)
  /\ AnyBrowser
  /\ NewThread
  /\ NoMemory
  /\ quota = [sends |-> MaxTurnSends, speaks |-> MaxSpeaks, voice |-> MaxVoice, saves |-> 0]

NextSpeech ==
  \/ NextTurn
  \/ TestVoice
  \/ HandleSpeakMessage
  \/ ToggleAutoSpeak
  \/ ToggleAutoSendVoice
  \/ VoiceToInput

SpecSpeech == InitSpeech /\ [][NextSpeech]_vars

\* The turns of an earlier session.
EarlierThread ==
  <<[role |-> "user", content |-> <<"h">>, createdAt |-> -1],
    [role |-> "assistant", content |-> <<"r">>, createdAt |-> 0]>>

\* Memory documents saved in earlier sessions.
EarlierMemories(n) ==
  [k \in 1..n |-> [title |-> <<"m">>, detail |-> <<"m">>, createdAt |-> k - n]]

EarlierMemorySizes == {0, SUMMARY_LIMIT - 1, SUMMARY_LIMIT, MEMORY_LIMIT - 1, MEMORY_LIMIT}

\* SpecMemory: memory items are saved between and during turns; read-aloud is
\* switched off.
InitMemory ==
  /\ InitShellState(FALSE)
  /\ SilentBrowser
  /\ store = EarlierThread
  /\ messages = MessagesSnapshot(store)
  /\ \E n \in EarlierMemorySizes :
       /\ memStore = EarlierMemories(n)
       /\ quota = [sends |-> MaxTurnSends, speaks |-> 0, voice |-> MaxVoice,
                   saves |-> n + MaxSaves]
  /\ memories = MemoriesSnapshot(memStore)

NextMemory ==
  \/ HandleSaveMemory
  \/ TypeInput
  \/ SendFromInput
  \/ \E s \in SendIds : UserWriteOk(s)
  \/ \E s \in SendIds : UserWriteFail(s)
  \/ \E s \in SendIds : RelayOk(s)
  \/ \E s \in SendIds : RelayFail(s)
  \/ \E s \in SendIds : AsstWriteOkSilent(s)
  \/ \E s \in SendIds : AsstWriteFail(s)
  \/ HandleSpeak
  \/ RecognitionFails
  \/ VoiceSend
  \/ VoiceSendRefused

SpecMemory == InitMemory /\ [][NextMemory]_vars

\* SpecOverlap: sends from the composer and by voice that may overlap, with
\* read-aloud switched off.
InitOverlap ==
  /\ InitShellState(FALSE)
  /\ SilentBrowser
  /\ NewThread
  /\ NoMemory
  /\ quota = [sends |-> MaxSends, speaks |-> 0, voice |-> MaxVoice, saves |-> 0]

NextOverlap ==
  \/ TypeInput
  \/ SendFromInput
  \/ \E s \in SendIds : UserWriteOk(s)
  \/ \E s \in SendIds : UserWriteFail(s)
  \/ \E s \in SendIds : RelayOk(s)
  \/ \E s \in SendIds : RelayFail(s)
  \/ \E s \in SendIds : AsstWriteOkSilent(s)
  \/ \E s \in SendIds : AsstWriteFail(s)
  \/ HandleSpeak
  \/ RecognitionFails
  \/ VoiceSend
  \/ VoiceSendRefused

SpecOverlap == InitOverlap /\ [][NextOverlap]_vars

(***************************************************************************)
(* Claims about the relay service                                          *)
(***************************************************************************)
RelayDone == rPc = "done" /\ IsSome(rOutcome)
RelayResponded(status) ==
  RelayDone /\ Val(rOutcome).tag = "response" /\ Val(rOutcome).status = status

\* C1: a POST handled while no API credential is configured always yields a
\* 500 response and makes no upstream call, whatever the body (a body that is
\* not valid JSON included).
C1_MissingKeyYields500 ==
  (rPc = "done" /\ rMethod = "POST" /\ ~rApiKey)
    => (RelayResponded(500) /\ rUpstreamCalls = 0)

\* The data-URL has a non-empty field right after its first comma.
HasCommaPayload(url) ==
  \E i \in 1..(Len(url) - 1) :
    /\ url[i] = ","
    /\ \A j \in 1..(i - 1) : url[j] # ","
    /\ url[i + 1] # ","

HasInline(parts) == \E k \in 1..Len(parts) : parts[k].kind = "inlineData"

\* C2: in the upstream request an inline image part is attached to a message
\* if and only if the message is the last one, its role is user, an image
\* data-URL was supplied and the data-URL holds a comma-separated payload; the
\* image part follows the message's text part, and every other message carries
\* exactly one part, the text part with its content.
C2_ImageOnlyOnLastUser ==
  IsSome(rUpstreamReq) =>
    LET contents == Val(rUpstreamReq).contents
        n == Len(rPayload.messages)
    IN /\ Len(contents) = n
       /\ \A i \in 1..n :
            LET parts == contents[i].parts
                attach == /\ i = n
                          /\ rPayload.messages[i].role = "user"
                          /\ IsSome(rPayload.imageDataUrl)
                          /\ HasCommaPayload(Val(rPayload.imageDataUrl))
            IN /\ HasInline(parts) <=> attach
               /\ parts[1].kind = "text" /\ parts[1].text = rPayload.messages[i].content
               /\ Len(parts) = IF attach THEN 2 ELSE 1
               /\ attach => parts[2].kind = "inlineData"

C2_Witness ==
  /\ IsSome(rUpstreamReq)
  /\ Len(rPayload.messages) = 2
  /\ Len(Val(rUpstreamReq).contents[1].parts) = 1
  /\ HasInline(Val(rUpstreamReq).contents[2].parts)

\* Everything that follows the first comma of the data-URL.
AfterFirstComma(url) ==
  LET c == CHOOSE i \in 1..Len(url) : url[i] = "," /\ \A j \in 1..(i - 1) : url[j] # ","
  IN SubSeq(url, c + 1, Len(url))

\* C3: when an image part is attached, its data is everything that follows the
\* first comma of the supplied data-URL, and its mime type is image/png.
C3_ImageDataIsAfterFirstComma ==
  IsSome(rUpstreamReq) =>
    \A i \in 1..Len(Val(rUpstreamReq).contents) :
      \A k \in 1..Len(Val(rUpstreamReq).contents[i].parts) :
        LET part == Val(rUpstreamReq).contents[i].parts[k]
        IN part.kind = "inlineData" =>
             /\ part.mimeType = "image/png"
             /\ part.data = AfterFirstComma(Val(rPayload.imageDataUrl))

\* C4: when the upstream answers with a non-success status, the relay has made
\* exactly one upstream call and responds with that status and the upstream
\* error body unchanged.
C4_UpstreamErrorRelayed ==
  (rPc = "done" /\ IsSome(rUpstreamRes) /\ ~Val(rUpstreamRes).ok) =>
    /\ rUpstreamCalls = 1
    /\ Val(rOutcome).tag = "response"
    /\ Val(rOutcome).status = Val(rUpstreamRes).status
    /\ Val(rOutcome).kind = "text"
    /\ Val(rOutcome).body = Val(rUpstreamRes).errText

C4_Witness ==
  /\ rPc = "done" /\ IsSome(rUpstreamRes) /\ ~Val(rUpstreamRes).ok
  /\ Val(rUpstreamRes).status = 429
  /\ Val(rOutcome).status = 429

\* The parts of the first candidate of an upstream answer, none when there is
\* no candidate or the candidate has no content or no parts.
FirstCandidateParts(data) ==
  IF data.candidates = NONE \/ data.candidates = Some(<<>>) THEN <<>>
  ELSE LET first == Val(data.candidates)[1]
       IN IF first.content = NONE \/ Val(first.content).parts = NONE THEN <<>>
          ELSE Val(Val(first.content).parts)

\* The texts of parts 1..n put one after the other; a part without text adds
\* nothing.
RECURSIVE TextsUpTo(_, _)
TextsUpTo(ps, n) ==
  IF n = 0 THEN <<>>
  ELSE TextsUpTo(ps, n - 1) \o (IF ps[n] = NONE THEN <<>> ELSE ps[n][1])

\* C12: on upstream success the relay returns {text}, text being the texts of
\* all parts of the first candidate, in order, with no separator (a part
\* without text adds the empty string), and the empty string when there is no
\* candidate or the candidate structure is absent.
C12_TextOfFirstCandidate ==
  (rPc = "done" /\ IsSome(rUpstreamRes) /\ Val(rUpstreamRes).ok) =>
    LET ps == FirstCandidateParts(Val(rUpstreamRes).data)
    IN /\ IsSome(rOutcome)
       /\ Val(rOutcome).tag = "response"
       /\ Val(rOutcome).status = 200
       /\ Val(rOutcome).kind = "json"
       /\ Val(rOutcome).body = TextsUpTo(ps, Len(ps))

\* A success with two candidates, the first with a part without text and a
\* part with text.
C12_Witness ==
  /\ rPc = "done" /\ IsSome(rUpstreamRes) /\ Val(rUpstreamRes).ok
  /\ Val(rUpstreamRes).data.candidates =
       Some(<<[content |-> Some([parts |-> Some(<<NONE, Some(<<"b", "c">>)>>)])],
              OtherCandidate>>)
  /\ Val(rOutcome).body = <<"b", "c">>

\* C13: the relay answers every OPTIONS request with status 204, whatever the
\* body, the credential and the headers are, and every request whose method is
\* neither POST nor OPTIONS with status 405; in both cases no upstream call is
\* made.
C13_PreflightAndOtherMethods ==
  /\ rMethod # "POST" => (rUpstreamCalls = 0 /\ rUpstreamReq = NONE /\ rPc # "upstream")
  /\ (rPc = "done" /\ rMethod = "OPTIONS") => RelayResponded(204)
  /\ (rPc = "done" /\ rMethod \notin {"POST", "OPTIONS"}) => RelayResponded(405)

\* A preflight with an Origin header, a body that is not JSON and no
\* credential, answered 204.
C13_Witness ==
  /\ rMethod = "OPTIONS" /\ ~rBodyJson /\ ~rApiKey /\ IsSome(rOrigin)
  /\ RelayResponded(204)
  /\ rUpstreamCalls = 0

\* The role mapping C11 names.
RoleMap == [user |-> "user", assistant |-> "model"]

\* C11: for every message sequence of a relay POST (roles user and assistant)
\* the upstream contents list has the length and the order of the input
\* messages, and each role is mapped by the bijection user -> user,
\* assistant -> model.
C11_ContentsFollowMessages ==
  /\ \A r1, r2 \in Roles : RoleMap[r1] = RoleMap[r2] => r1 = r2
  /\ IsSome(rUpstreamReq) =>
       LET contents == Val(rUpstreamReq).contents
       IN /\ Len(contents) = Len(rPayload.messages)
          /\ \A i \in 1..Len(contents) :
               /\ contents[i].role = RoleMap[rPayload.messages[i].role]
               /\ contents[i].parts[1] = TextPart(rPayload.messages[i].content)

\* A forwarded request with two messages that differ in role and in content.
C11_Witness ==
  /\ IsSome(rUpstreamReq)
  /\ Len(rPayload.messages) = 2
  /\ rPayload.messages[1].role = "user" /\ rPayload.messages[2].role = "assistant"
  /\ rPayload.messages[1].content # rPayload.messages[2].content
  /\ Len(Val(rUpstreamReq).contents) = 2

(***************************************************************************)
(* Claims about the drawing surface                                        *)
(***************************************************************************)
\* C9: after any sequence of pointer events with any tool, resizes and clears,
\* has-content() is true and get-snapshot() returns an image exactly when
\* something has been drawn on the canvas since the last clear (or since
\* creation); otherwise get-snapshot() returns none.
C9_DirtyIffDrawn ==
  /\ HasDrawing <=> wStrokes
  /\ IsSome(GetDataUrl) <=> wStrokes

(***************************************************************************)
(* Claims about the application shell                                      *)
(***************************************************************************)
Over(s) == sends[s].pc = "done"

\* The relay client has been called by send s.
RelayCalled(s) ==
  \/ sends[s].pc \in {"relay", "asstWrite", "speak"}
  \/ Over(s) /\ sends[s].failure # "userWrite"

RelaySucceeded(s) == IsSome(sends[s].response)

\* The thread holds the user turn, or the assistant turn, of send s.
UserStored(s) ==
  \E i \in 1..Len(store) :
    store[i] = [role |-> "user", content |-> sends[s].userMessage, createdAt |-> sends[s].now]

AsstStored(s) ==
  /\ RelaySucceeded(s)
  /\ \E i \in 1..Len(store) :
       /\ store[i].role = "assistant"
       /\ store[i].createdAt = sends[s].asstAt

\* A step removes or alters no document of the thread.
NoDelete ==
  /\ Len(store') >= Len(store)
  /\ \A i \in 1..Len(store) : store'[i] = store[i]

\* C5, as written: on a send the user turn is persisted before the relay is
\* called, an assistant turn is persisted if and only if the relay call
\* succeeded, and after a failed relay call the user turn stays persisted with
\* no assistant turn.
C5_AssistantIffRelaySucceeded ==
  \A s \in SendIds :
    /\ RelayCalled(s) => UserStored(s)
    /\ Over(s) => (AsstStored(s) <=> RelaySucceeded(s))
    /\ (Over(s) /\ sends[s].failure = "relay") => (UserStored(s) /\ ~AsstStored(s))

\* C5, amended: on a send the user turn is persisted before the relay is
\* called; an assistant turn is persisted only if the relay call succeeded, and
\* it is persisted whenever the relay call succeeded and the store accepted its
\* write; after a failed relay call (and after a rejected assistant write) the
\* user turn stays persisted with no assistant turn, and no step ever deletes a
\* document of the thread.
C5_TurnPersistence ==
  /\ [](\A s \in SendIds :
          /\ RelayCalled(s) => UserStored(s)
          /\ AsstStored(s) => RelaySucceeded(s)
          /\ (sends[s].pc = "speak" \/ (Over(s) /\ sends[s].failure = "none")) => AsstStored(s)
          /\ (Over(s) /\ sends[s].failure \in {"relay", "asstWrite"})
               => (UserStored(s) /\ ~AsstStored(s)))
  /\ [][NoDelete]_vars

\* A send whose relay call failed: the user turn is in the thread, no assistant
\* turn is.
C5_Witness ==
  \E s \in SendIds :
    /\ Over(s)
    /\ sends[s].failure = "relay"
    /\ UserStored(s)
    /\ ~AsstStored(s)

\* C6: every failure during a send (the write of the user turn, the relay call,
\* the write of the assistant turn), from the button or by voice, ends with the
\* generic message "Unable to reach the mentor right now." shown; the
\* speech-unavailable message is never what a failed send shows.
C6_SendFailureShowsGenericMessage ==
  \A s \in SendIds :
    (Over(s) /\ sends[s].failure # "none") =>
      /\ sends[s].shown = Some(GENERIC_ERROR)
      /\ sends[s].shown # Some(SPEECH_ERROR)

\* The thread as persisted before send s, oldest first, then its user turn.
FullHistory(s) ==
  Append(SortAsc(sends[s].before),
         [role |-> "user", content |-> sends[s].userMessage, createdAt |-> sends[s].now])

\* C7: the message list of every outgoing request is the whole thread persisted
\* before the send, by ascending createdAt, followed by the new user turn once,
\* as the last element.
C7_RequestCarriesFullHistory ==
  \A s \in SendIds :
    sends[s].pc = "relay" =>
      LET h == FullHistory(s)
      IN Val(sends[s].req).messages =
           [i \in 1..Len(h) |-> [role |-> h[i].role, content |-> h[i].content]]

\* The number of documents created after document k.
Newer(docs, k) == Cardinality({j \in 1..Len(docs) : docs[j].createdAt > docs[k].createdAt})

\* The document with exactly r newer ones.
Ranked(docs, r) == docs[CHOOSE k \in 1..Len(docs) : Newer(docs, k) = r]

\* What C8 says the summary of the memory documents docs is.
SummaryOf(docs) ==
  IF Len(docs) = 0 THEN <<<<EMPTY_MEMORY>>>>
  ELSE [i \in 1..Min(Len(docs), 8) |-> SummaryLine(Ranked(docs, i - 1))]

\* C8: the memory summary sent with a request is the text "No saved memory
\* yet." if and only if no memory item exists; otherwise it has one line for
\* each of at most 8 items, the most recently created ones, most recent first.
C8_SummaryOfExistingMemory ==
  \A s \in SendIds :
    sends[s].pc = "relay" => Val(sends[s].req).memory = SummaryOf(sends[s].memBefore)

\* C10: a call of speakText resolves only when the playback of its utterance
\* has ended, and when it has resolved its on-finish callback has been called;
\* also among other speakText and stopSpeaking calls, and also without speech
\* synthesis.
C10_ResolvesWhenPlaybackEnded ==
  \A u \in UttIds :
    utter[u].resolved =>
      /\ utter[u].st \in {"ended", "cancelled"}
      /\ utter[u].hasCb => utter[u].cbDone

InProgress(s) == sends[s].pc \notin {"idle", "done"}

\* C14, as written: under any interleaving of button and voice sends, a send
\* invoked while an earlier send has not finished persists no user turn and
\* makes no relay call, so at most one relay request is outstanding at a time.
C14_OneSendAtATime ==
  /\ \A s1, s2 \in SendIds :
       (s1 < s2 /\ InProgress(s1)) => (~UserStored(s2) /\ ~RelayCalled(s2))
  /\ Cardinality({s \in SendIds : sends[s].pc = "relay"}) <= 1

\* C14, amended: a send invoked by a handler whose render has the loading flag
\* set persists no user turn and makes no relay call (a transcript that
\* arrives at such a handler changes neither the thread nor any send); every
\* send that goes ahead was invoked by a handler whose render had the flag
\* clear.
C14_LoadingGuard ==
  [][/\ nSends' # nSends => ~sends'[nSends'].c.loading
     /\ (voice.pc = "recognizing" /\ voice.c.autoSendVoice /\ voice.c.loading /\ voice' # voice)
          => (/\ voice'.last \in {"refused", "failed"}
              /\ store' = store
              /\ nSends' = nSends
              /\ sends' = sends)]_vars

\* Speak was pressed while a send was loading, the transcript arrived, and
\* handleSendText returned at its guard: the thread holds the one user turn of
\* the send still in flight.
C14_Witness ==
  /\ voice.last = "refused"
  /\ nSends = 1
  /\ sends[1].pc = "relay"
  /\ Len(store) = 1

\* C15: every send that sets the loading flag eventually clears it, whether
\* the relay call succeeds or fails, provided the relay call and the store
\* writes settle; also when the reply being read aloud is cancelled by
\* stopSpeaking or by a later speakText.
C15_LoadingEventuallyCleared == loading ~> ~loading

====
